---- MODULE Spec2Model ----
(***************************************************************************)
(* Model of synthpop/synthesizer.py: the per-geography synthesis stage     *)
(* (synthesize), the sequential driver (synthesize_all) and the parallel   *)
(* driver (synthesize_all_in_parallel).                                     *)
(*                                                                         *)
(* Spec      : one run of a driver over a list of geographies.             *)
(* SpecSynth : successive calls of synthesize on tables owned by a caller. *)
(***************************************************************************)
EXTENDS Integers, Sequences, FiniteSets, TLC

(***************************************************************************)
(* Bounds                                                                  *)
(***************************************************************************)
\* number of geography ids the recipe knows
NumGeogs == 3
\* largest number of households the drawer returns for one geography
MaxHH == 2
\* persons the drawer returns per drawn household
PersonsPerHH == 2

Geogs == 1..NumGeogs

\* None (num_geogs=None, no result yet, no error); a value v that may be
\* None is held as <<v>>
None == <<>>

(***************************************************************************)
(* Generic helpers                                                         *)
(***************************************************************************)
Range(s) == {s[x] : x \in DOMAIN s}

RECURSIVE Flatten(_)
\* pd.concat of a list of tables, in list order
Flatten(tables) ==
    IF tables = <<>> THEN <<>> ELSE Head(tables) \o Flatten(Tail(tables))

\* the lists of geography ids a run may be given: the first n ids of the
\* recipe, in the recipe's order
GeogLists == {[x \in 1..n |-> x] : n \in 0..NumGeogs}


(***************************************************************************)
(* Steps shared by the loops of the drivers                                *)
(***************************************************************************)
\* households[geog_cat] = geog_id[geog_cat] for every key column
TagHouseholds(households, geog_id) ==
    [j \in DOMAIN households |-> [households[j] EXCEPT !.geog = geog_id]]

\* BlockGroupID(state, county, tract, block group) of a geography id
BlockGroupID(geog_id) == geog_id

\* fit_quality[key] = FitQuality(people_chisq, people_p)
PutFit(fq, key, fit) ==
    [x \in (DOMAIN fq) \cup {key} |-> IF x = key THEN fit ELSE fq[x]]

\* sequential driver: hh_index_start = households.index.values[-1] + 1
SeqNextIndexStart(households, start) ==
    IF Len(households) > 0 THEN households[Len(households)].id + 1 ELSE start

ParNextIndexStartNoInc(households, start) ==
    IF Len(households) > 0 THEN households[Len(households)].id ELSE start

\* parallel driver: hh_index_start = households.index.values[-1] + 1
ParNextIndexStart(households, start) ==
    IF Len(households) > 0 THEN households[Len(households)].id + 1 ELSE start

ShiftHouseholdsNone(households, off) == households

\* households.index += hh_index_start
ShiftHouseholds(households, off) ==
    [j \in DOMAIN households |->
        [households[j] EXCEPT !.id = households[j].id + off]]

\* people.hh_id += hh_index_start
ShiftPeople(people, off) ==
    [q \in DOMAIN people |-> [people[q] EXCEPT !.hh_id = people[q].hh_id + off]]

\* if num_geogs is not None and cnt >= num_geogs: break
BreakNow(c, n) == n # None /\ c >= n[1]

(***************************************************************************)
(* synthesize: the tables of its caller and the values of its last call    *)
(*                                                                         *)
(* Marginal cells, frequencies and substitutes are held in thousandths:    *)
(* 10 is .01 (the default marginal_zero_sub), 1 is .001 (the default       *)
(* jd_zero_sub), 1000 is one household.                                    *)
(***************************************************************************)
\* cells of a marginal table (a Series whose index level 0 is the category)
MargLen == 3
\* categories (index level 0) of a marginal table
NumCats == 2
\* rows of a joint-distribution table
JdLen == 2
\* rows of the person sample table
PumsLen == 2
\* calls of synthesize on the same tables
MaxCalls == 2

\* max_iterations = 20000
max_iterations == 20000

\* values of marginal cells, of frequencies, and of the two substitutes
MargValues == {0, 1000, 21000}
FreqValues == {0, 1000}
MargSubs == {10, 2000}
JdSubs == {1, 2000}
\* iterations the weight-fitting solver may report
SolverIterations == {1, max_iterations}
\* weight vectors the weight-fitting solver may return, by name
SolverWeights == {"weights_a", "weights_b"}

\* level-0 category of cell j of a marginal table
CatOf(j) == ((j - 1) % NumCats) + 1

\* the marginal tables a recipe may hand out
MargTables(len) ==
    {[j \in 1..len |-> [cat |-> CatOf(j), val |-> v[j]]] :
        v \in [1..len -> MargValues]}

\* the joint-distribution tables a recipe may hand out: cat_id 0, 1, ...
JdTables ==
    {[j \in 1..JdLen |-> [cat_id |-> j - 1, frequency |-> f[j]]] :
        f \in [1..JdLen -> FreqValues]}

\* the cat_id column of a sample table whose categories are those of
\* JdTables: the sample rows fall into the categories in turn
PumsTable == [j \in 1..PumsLen |-> (j - 1) % JdLen]

VARIABLES
    h_marg, p_marg,   \* the caller's marginal tables
    h_jd, p_jd,       \* the caller's joint-distribution tables
    p_pums,           \* the cat_id column of the caller's person sample table
    marginal_zero_sub, jd_zero_sub,   \* the substitutes the caller passes
    at_entry,         \* h_jd, p_jd, p_pums as they were when the last call began
    call,             \* the arguments and local values of the last call, or None
    calls             \* number of calls made on these tables

synth_vars == <<h_marg, p_marg, h_jd, p_jd, p_pums, marginal_zero_sub,
                jd_zero_sub, at_entry, call, calls>>

MinOf(S) == CHOOSE x \in S : \A y \in S : x <= y
MaxOf(S) == CHOOSE x \in S : \A y \in S : x >= y

ReplaceMargSkipped(marg, sub) == marg

\* marg.replace(0, sub): a new table, the caller's is left alone
ReplaceMarg(marg, sub) ==
    [j \in DOMAIN marg |->
        [marg[j] EXCEPT !.val = IF @ = 0 THEN sub ELSE @]]

\* jd.frequency = jd.frequency.replace(0, sub): assigned to the caller's table
ReplaceFrequency(jd, sub) ==
    [j \in DOMAIN jd |->
        [jd[j] EXCEPT !.frequency = IF @ = 0 THEN sub ELSE @]]

CatIds(jd) == [j \in DOMAIN jd |-> jd[j].cat_id]

\* p_starting_cat_id = h_jd['cat_id'].max() + 1
PStartingCatId(hjd) == MaxOf(Range(CatIds(hjd))) + 1

\* p_jd['cat_id'] += p_starting_cat_id: in place, on the caller's table
ShiftJdCatIds(jd, start) ==
    [j \in DOMAIN jd |-> [jd[j] EXCEPT !.cat_id = @ + start]]

\* p_pums['cat_id'] += p_starting_cat_id: in place, on the caller's table
ShiftPumsCatIds(pums, start) == [j \in DOMAIN pums |-> pums[j] + start]

RECURSIVE SumVals(_, _)
SumVals(marg, j) ==
    IF j = 0 THEN 0 ELSE marg[j].val + SumVals(marg, j - 1)

\* int(h_marg.groupby(level=0).sum().mean()): the per-category totals add up
\* to the sum of all cells; int() drops the fraction
NumHouseholds(marg) ==
    LET cats == {marg[j].cat : j \in DOMAIN marg}
    IN  SumVals(marg, Len(marg)) \div (Cardinality(cats) * 1000)

\* the level of the "Number of iterations" log record
IterationsLogLevel(iterations) ==
    IF iterations = max_iterations THEN "warning" ELSE "debug"

WeightsForDrawUnlessCap(best_weights, iterations) ==
    IF iterations = max_iterations THEN None ELSE <<best_weights>>

\* the best_weights argument of draw.draw_households: what the solver
\* returned, whatever the number of iterations
WeightsForDraw(best_weights, iterations) == <<best_weights>>

\* one call of synthesize(h_marg, p_marg, h_jd, p_jd, h_pums, p_pums, ...)
Synthesize ==
    /\ calls < MaxCalls
    /\ \E iterations \in SolverIterations, best_weights \in SolverWeights :
        LET hm == ReplaceMarg(h_marg, marginal_zero_sub)
            pm == ReplaceMarg(p_marg, marginal_zero_sub)
            hjd == ReplaceFrequency(h_jd, jd_zero_sub)
            pjd == ReplaceFrequency(p_jd, jd_zero_sub)
            start == PStartingCatId(hjd)
        IN  /\ at_entry' = [h_jd |-> h_jd, p_jd |-> p_jd, p_pums |-> p_pums]
            /\ h_jd' = hjd
            /\ p_jd' = ShiftJdCatIds(pjd, start)
            /\ p_pums' = ShiftPumsCatIds(p_pums, start)
            /\ call' = <<[h_marg |-> hm,
                          p_marg |-> pm,
                          h_constraint_index |-> CatIds(hjd),
                          p_starting_cat_id |-> start,
                          p_constraint_index |->
                              CatIds(ShiftJdCatIds(pjd, start)),
                          iterations |-> iterations,
                          best_weights |-> best_weights,
                          logged |-> IterationsLogLevel(iterations),
                          num_households |-> NumHouseholds(hm),
                          draw_weights |->
                              WeightsForDraw(best_weights, iterations),
                          returned |-> TRUE]>>
    /\ calls' = calls + 1
    /\ UNCHANGED <<h_marg, p_marg, marginal_zero_sub, jd_zero_sub>>

(***************************************************************************)
(* State of one driver run                                                 *)
(***************************************************************************)
VARIABLES
    hh_count,         \* num_households that synthesize derives from the
                      \* marginals of each geography and asks the drawer for
    mode,             \* "seq": synthesize_all, "par": synthesize_all_in_parallel
    indexes,          \* the geography ids, in enumeration order
    num_geogs,        \* the cap, or None
    pc,               \* the driver's position
    k,                \* position of the for loop over indexes
    cnt,
    hh_index_start,
    hh_list,
    people_list,
    fit_quality,
    geog_ids,
    geog_synth_args,  \* phase-1 futures: [geog, status, yielded]
    finished_args,    \* argument tuples, named by the geography they hold
    futures,          \* phase-2 futures: [src, status]; status "raised":
                      \* the task raised an Exception, "exited": it raised
                      \* something else (SystemExit, KeyboardInterrupt)
    i,                \* position of the phase-3 loop
    printed,          \* exceptions printed by phase 3
    result,           \* the returned triple, or None
    error,            \* the exception that left the driver, or None
    earlier           \* the triples returned by earlier runs of the driver

driver_vars == <<hh_count, mode, indexes, num_geogs, pc, k, cnt, hh_index_start, hh_list,
          people_list, fit_quality, geog_ids, geog_synth_args, finished_args,
          futures, i, printed, result, error>>

accum == <<hh_index_start, hh_list, people_list, fit_quality>>
\* what no step of a driver changes: the inputs of the run, and the tables
\* of SpecSynth
inputs == <<hh_count, mode, indexes, num_geogs, synth_vars, earlier>>
vars == <<driver_vars, synth_vars, earlier>>
par_state == <<geog_ids, geog_synth_args, finished_args, futures, i, printed>>

(***************************************************************************)
(* The synthesis stage of one geography, as the drivers see it             *)
(***************************************************************************)
\* num_households of the synthesis stage run on the inputs of geography g
HHCount(g) == hh_count[g]

\* draw.draw_households: ids hh_index_start, hh_index_start+1, ... in order;
\* src records the geography whose inputs the rows were drawn from
DrawHouseholds(g, start) ==
    [j \in 1..HHCount(g) |-> [id |-> start + j - 1, src |-> g, geog |-> 0]]

\* the persons of the households drawn in the same call
DrawPeople(g, start) ==
    [q \in 1..(HHCount(g) * PersonsPerHH) |->
        [hh_id |-> start + ((q - 1) \div PersonsPerHH), src |-> g]]

\* people_chisq, people_p of the draw for geography g
DrawFit(g) == [people_chisq |-> g, people_p |-> g]

EmptyFit == [x \in {} |-> 0]

\* no call of synthesize is tracked table by table during a driver run
SynthIdle ==
    /\ h_marg = <<>> /\ p_marg = <<>> /\ h_jd = <<>> /\ p_jd = <<>>
    /\ p_pums = <<>> /\ marginal_zero_sub = 0 /\ jd_zero_sub = 0
    /\ at_entry = None /\ call = None /\ calls = 0

Init ==
    /\ SynthIdle
    /\ mode \in {"seq", "par"}
    /\ indexes \in GeogLists
    /\ hh_count \in [DOMAIN indexes -> 0..MaxHH]
    /\ num_geogs \in {None} \cup {<<n>> : n \in 0..NumGeogs}
    /\ pc = IF mode = "seq" THEN "loop" ELSE "submit"
    /\ k = 1
    /\ cnt = 0
    /\ hh_index_start = 0
    /\ hh_list = <<>>
    /\ people_list = <<>>
    /\ fit_quality = EmptyFit
    /\ geog_ids = <<>>
    /\ geog_synth_args = <<>>
    /\ finished_args = <<>>
    /\ futures = <<>>
    /\ i = 1
    /\ printed = <<>>
    /\ earlier = <<>>
    /\ result = None
    /\ error = None

(***************************************************************************)
(* synthesize_all                                                          *)
(***************************************************************************)
\* the body of the for loop for geography geog_id: synthesize with the
\* running offset, tag, append, record fit quality, advance the offset
SeqStep(acc, geog_id) ==
    LET households == TagHouseholds(
            DrawHouseholds(geog_id, acc.hh_index_start), geog_id)
        people == DrawPeople(geog_id, acc.hh_index_start)
    IN  [hh_list |-> Append(acc.hh_list, households),
         people_list |-> Append(acc.people_list, people),
         fit_quality |->
             PutFit(acc.fit_quality, BlockGroupID(geog_id), DrawFit(geog_id)),
         hh_index_start |-> SeqNextIndexStart(households, acc.hh_index_start)]

\* one iteration of the for loop: fetch, synthesize, tag, append, advance
SeqIteration ==
    /\ pc = "loop"
    /\ k <= Len(indexes)
    /\ LET acc == SeqStep(
               [hh_list |-> hh_list, people_list |-> people_list,
                fit_quality |-> fit_quality,
                hh_index_start |-> hh_index_start],
               indexes[k])
       IN  /\ hh_list' = acc.hh_list
           /\ people_list' = acc.people_list
           /\ fit_quality' = acc.fit_quality
           /\ hh_index_start' = acc.hh_index_start
           /\ cnt' = cnt + 1
           /\ k' = k + 1
           /\ pc' = IF BreakNow(cnt + 1, num_geogs) THEN "concat" ELSE "loop"
    /\ UNCHANGED <<inputs, par_state, result, error>>

\* a recipe getter raises inside the loop body: nothing catches it
SeqFetchRaises ==
    /\ pc = "loop"
    /\ k <= Len(indexes)
    /\ pc' = "raised"
    /\ error' = <<[in |-> "fetch", geog |-> indexes[k]]>>
    /\ UNCHANGED <<inputs, k, cnt, accum, par_state, result>>

\* synthesize raises inside the loop body: nothing catches it
SeqSynthesizeRaises ==
    /\ pc = "loop"
    /\ k <= Len(indexes)
    /\ pc' = "raised"
    /\ error' = <<[in |-> "synthesize", geog |-> indexes[k]]>>
    /\ UNCHANGED <<inputs, k, cnt, accum, par_state, result>>

\* the for loop is exhausted
SeqLoopEnd ==
    /\ pc = "loop"
    /\ k > Len(indexes)
    /\ pc' = "concat"
    /\ UNCHANGED <<inputs, k, cnt, accum, par_state, result, error>>

(***************************************************************************)
(* The end of both drivers: pd.concat and return                           *)
(***************************************************************************)
\* pd.concat(hh_list), pd.concat(people_list, ignore_index=True), return
ConcatReturn ==
    /\ pc = "concat"
    /\ hh_list # <<>>
    /\ result' = <<[all_households |-> Flatten(hh_list),
                    all_persons |-> Flatten(people_list),
                    fit_quality |-> fit_quality]>>
    /\ pc' = "returned"
    /\ UNCHANGED <<inputs, k, cnt, accum, par_state, error>>

\* pd.concat of an empty list raises ValueError
ConcatRaises ==
    /\ pc = "concat"
    /\ hh_list = <<>>
    /\ pc' = "raised"
    /\ error' = <<[in |-> "concat", geog |-> 0]>>
    /\ UNCHANGED <<inputs, k, cnt, accum, par_state, result>>

(***************************************************************************)
(* synthesize_all_in_parallel                                              *)
(***************************************************************************)
\* phase 1, one iteration of the submission loop:
\* ex.submit(geog_preprocessing, geog_id, ...), geog_ids.append(geog_id)
ParSubmitFetch ==
    /\ pc = "submit"
    /\ k <= Len(indexes)
    /\ geog_synth_args' = Append(geog_synth_args,
           [geog |-> indexes[k], status |-> "running", yielded |-> FALSE])
    /\ geog_ids' = Append(geog_ids, indexes[k])
    /\ cnt' = cnt + 1
    /\ k' = k + 1
    /\ pc' = IF BreakNow(cnt + 1, num_geogs) THEN "collect" ELSE "submit"
    /\ UNCHANGED <<inputs, accum, finished_args, futures, i, printed, result,
                   error>>

\* the submission loop is exhausted
ParSubmitEnd ==
    /\ pc = "submit"
    /\ k > Len(indexes)
    /\ pc' = "collect"
    /\ UNCHANGED <<inputs, k, cnt, accum, par_state, result, error>>

\* a worker finishes geog_preprocessing of one submitted geography
FetchTaskReturns(j) ==
    /\ geog_synth_args[j].status = "running"
    /\ geog_synth_args' = [geog_synth_args EXCEPT ![j].status = "done"]
    /\ UNCHANGED <<inputs, pc, k, cnt, accum, geog_ids, finished_args, futures,
                   i, printed, result, error>>

\* geog_preprocessing raises in the worker: the future holds the exception
FetchTaskRaises(j) ==
    /\ geog_synth_args[j].status = "running"
    /\ geog_synth_args' = [geog_synth_args EXCEPT ![j].status = "raised"]
    /\ UNCHANGED <<inputs, pc, k, cnt, accum, geog_ids, finished_args, futures,
                   i, printed, result, error>>

\* as_completed(geog_synth_args) yields a completed future and
\* finished_args.append(finished_arg.result()) stores its argument tuple
ParCollect(j) ==
    /\ pc = "collect"
    /\ ~geog_synth_args[j].yielded
    /\ geog_synth_args[j].status = "done"
    /\ geog_synth_args' = [geog_synth_args EXCEPT ![j].yielded = TRUE]
    /\ finished_args' = Append(finished_args, geog_synth_args[j].geog)
    /\ UNCHANGED <<inputs, pc, k, cnt, accum, geog_ids, futures, i, printed,
                   result, error>>

\* finished_arg.result() re-raises the exception of the fetch task
ParCollectRaises(j) ==
    /\ pc = "collect"
    /\ ~geog_synth_args[j].yielded
    /\ geog_synth_args[j].status = "raised"
    /\ geog_synth_args' = [geog_synth_args EXCEPT ![j].yielded = TRUE]
    /\ pc' = "raised"
    /\ error' = <<[in |-> "fetch", geog |-> geog_synth_args[j].geog]>>
    /\ UNCHANGED <<inputs, k, cnt, accum, geog_ids, finished_args, futures, i,
                   printed, result>>

\* phase 2: futures = [ex.submit(synthesize, *geog_args)
\*                     for geog_args in finished_args]
ParSubmitSynth ==
    /\ pc = "collect"
    /\ \A j \in DOMAIN geog_synth_args : geog_synth_args[j].yielded
    /\ futures' = [j \in DOMAIN finished_args |->
                      [src |-> finished_args[j], status |-> "running"]]
    /\ pc' = "wait"
    /\ UNCHANGED <<inputs, k, cnt, accum, geog_ids, geog_synth_args,
                   finished_args, i, printed, result, error>>

\* a worker finishes synthesize(*geog_args), called with hh_index_start=0
SynthTaskReturns(j) ==
    /\ futures[j].status = "running"
    /\ futures' = [futures EXCEPT ![j].status = "done"]
    /\ UNCHANGED <<inputs, pc, k, cnt, accum, geog_ids, geog_synth_args,
                   finished_args, i, printed, result, error>>

\* synthesize raises an Exception in the worker: the future holds it
SynthTaskRaises(j) ==
    /\ futures[j].status = "running"
    /\ futures' = [futures EXCEPT ![j].status = "raised"]
    /\ UNCHANGED <<inputs, pc, k, cnt, accum, geog_ids, geog_synth_args,
                   finished_args, i, printed, result, error>>

\* the worker's call ends with an exception that is not an Exception
\* (SystemExit, KeyboardInterrupt): the future holds it
SynthTaskExits(j) ==
    /\ futures[j].status = "running"
    /\ futures' = [futures EXCEPT ![j].status = "exited"]
    /\ UNCHANGED <<inputs, pc, k, cnt, accum, geog_ids, geog_synth_args,
                   finished_args, i, printed, result, error>>

\* for f in as_completed(futures): pass -- ends when every future completed
ParWaitEnd ==
    /\ pc = "wait"
    /\ \A j \in DOMAIN futures : futures[j].status # "running"
    /\ pc' = "reassemble"
    /\ UNCHANGED <<inputs, k, cnt, accum, par_state, result, error>>

\* the else branch of the phase-3 loop body, for the result of a synthesis
\* task run on the inputs of geography src and handled as geography geog_id:
\* tag, shift by the running offset, append, record fit quality, advance
ReassembleStep(acc, src, geog_id) ==
    LET households == ShiftHouseholds(
            TagHouseholds(DrawHouseholds(src, 0), geog_id), acc.hh_index_start)
        people == ShiftPeople(DrawPeople(src, 0), acc.hh_index_start)
    IN  [hh_list |-> Append(acc.hh_list, households),
         people_list |-> Append(acc.people_list, people),
         fit_quality |->
             PutFit(acc.fit_quality, BlockGroupID(geog_id), DrawFit(src)),
         hh_index_start |-> ParNextIndexStart(households, acc.hh_index_start)]

\* phase 3, the else branch: future.result() returned
ReassembleOK ==
    /\ pc = "reassemble"
    /\ i <= Len(futures)
    /\ futures[i].status = "done"
    /\ LET acc == ReassembleStep(
               [hh_list |-> hh_list, people_list |-> people_list,
                fit_quality |-> fit_quality,
                hh_index_start |-> hh_index_start],
               futures[i].src, geog_ids[i])
       IN  /\ hh_list' = acc.hh_list
           /\ people_list' = acc.people_list
           /\ fit_quality' = acc.fit_quality
           /\ hh_index_start' = acc.hh_index_start
    /\ i' = i + 1
    /\ UNCHANGED <<inputs, pc, k, cnt, geog_ids, geog_synth_args,
                   finished_args, futures, printed, result, error>>

ReassembleExceptBreak ==
    /\ pc = "reassemble"
    /\ i <= Len(futures)
    /\ futures[i].status = "raised"
    /\ printed' = Append(printed, futures[i].src)
    /\ pc' = "concat"
    /\ UNCHANGED <<inputs, k, cnt, accum, geog_ids, geog_synth_args,
                   finished_args, futures, i, result, error>>

\* phase 3, the except branch: future.result() raised an Exception,
\* print('Generated an exception: ...')
ReassembleExcept ==
    /\ pc = "reassemble"
    /\ i <= Len(futures)
    /\ futures[i].status = "raised"
    /\ printed' = Append(printed, futures[i].src)
    /\ i' = i + 1
    /\ UNCHANGED <<inputs, pc, k, cnt, accum, geog_ids, geog_synth_args,
                   finished_args, futures, result, error>>

\* phase 3: future.result() raised what "except Exception" does not catch;
\* it leaves the driver, nothing is printed and nothing returned
ReassembleReraises ==
    /\ pc = "reassemble"
    /\ i <= Len(futures)
    /\ futures[i].status = "exited"
    /\ pc' = "raised"
    /\ error' = <<[in |-> "result", geog |-> futures[i].src]>>
    /\ UNCHANGED <<inputs, k, cnt, accum, par_state, result>>

\* the phase-3 loop is exhausted
ReassembleEnd ==
    /\ pc = "reassemble"
    /\ i > Len(futures)
    /\ pc' = "concat"
    /\ UNCHANGED <<inputs, k, cnt, accum, par_state, result, error>>

(***************************************************************************)
(* Specification of a driver run                                           *)
(***************************************************************************)
Next ==
    \/ SeqIteration
    \/ SeqFetchRaises
    \/ SeqSynthesizeRaises
    \/ SeqLoopEnd
    \/ ParSubmitFetch
    \/ ParSubmitEnd
    \/ \E j \in DOMAIN geog_synth_args : FetchTaskReturns(j)
    \/ \E j \in DOMAIN geog_synth_args : FetchTaskRaises(j)
    \/ \E j \in DOMAIN geog_synth_args : ParCollect(j)
    \/ \E j \in DOMAIN geog_synth_args : ParCollectRaises(j)
    \/ ParSubmitSynth
    \/ \E j \in DOMAIN futures : SynthTaskReturns(j)
    \/ \E j \in DOMAIN futures : SynthTaskRaises(j)
    \/ \E j \in DOMAIN futures : SynthTaskExits(j)
    \/ ParWaitEnd
    \/ ReassembleOK
    \/ ReassembleExcept
    \/ ReassembleReraises
    \/ ReassembleEnd
    \/ ConcatReturn
    \/ ConcatRaises

Spec == Init /\ [][Next]_vars

(***************************************************************************)
(* Specification of successive calls of synthesize on the same tables      *)
(***************************************************************************)
DriverIdle ==
    /\ mode = "none" /\ indexes = <<>> /\ hh_count = <<>> /\ num_geogs = None
    /\ pc = "idle" /\ k = 1 /\ cnt = 0 /\ hh_index_start = 0
    /\ hh_list = <<>> /\ people_list = <<>> /\ fit_quality = EmptyFit
    /\ geog_ids = <<>> /\ geog_synth_args = <<>> /\ finished_args = <<>>
    /\ futures = <<>> /\ i = 1 /\ printed = <<>> /\ result = None
    /\ error = None /\ earlier = <<>>

InitSynth ==
    /\ DriverIdle
    /\ h_marg \in MargTables(MargLen)
    /\ p_marg \in MargTables(1)
    /\ h_jd \in JdTables
    /\ p_jd \in JdTables
    /\ p_pums = PumsTable
    /\ marginal_zero_sub \in MargSubs
    /\ jd_zero_sub \in JdSubs
    /\ at_entry = None
    /\ call = None
    /\ calls = 0

SynthesizeCall == Synthesize /\ UNCHANGED <<driver_vars, earlier>>

NextSynth == SynthesizeCall

SpecSynth == InitSynth /\ [][NextSynth]_vars

(***************************************************************************)
(* Specification of two successive runs of synthesize_all over the same    *)
(* recipe: the recipe hands every call of synthesize its stored tables     *)
(***************************************************************************)
\* the drawn persons are rows of the sample table handed to the drawer:
\* they carry its cat_id column
WithSampleColumns(people, pums) ==
    [q \in DOMAIN people |->
        [hh_id |-> people[q].hh_id, src |-> people[q].src,
         cat_id |-> pums[((q - 1) % Len(pums)) + 1]]]

InitTwice ==
    /\ mode = "seq"
    /\ indexes \in {l \in GeogLists : Len(l) >= 1 /\ 2 * Len(l) <= MaxCalls}
    /\ num_geogs = None
    /\ h_marg \in {m \in MargTables(MargLen) :
                      NumHouseholds(ReplaceMarg(m, MinOf(MargSubs))) <= MaxHH}
    /\ p_marg \in MargTables(1)
    /\ h_jd \in JdTables
    /\ p_jd \in JdTables
    /\ p_pums = PumsTable
    /\ marginal_zero_sub = MinOf(MargSubs)
    /\ jd_zero_sub \in JdSubs
    /\ at_entry = None
    /\ call = None
    /\ calls = 0
    /\ hh_count = [g \in DOMAIN indexes |->
                      NumHouseholds(ReplaceMarg(h_marg, marginal_zero_sub))]
    /\ pc = "loop" /\ k = 1 /\ cnt = 0 /\ hh_index_start = 0
    /\ hh_list = <<>> /\ people_list = <<>> /\ fit_quality = EmptyFit
    /\ geog_ids = <<>> /\ geog_synth_args = <<>> /\ finished_args = <<>>
    /\ futures = <<>> /\ i = 1 /\ printed = <<>> /\ result = None
    /\ error = None /\ earlier = <<>>

\* one iteration of the for loop, the call of synthesize on the recipe's
\* stored tables included
TwiceIteration ==
    /\ pc = "loop"
    /\ k <= Len(indexes)
    /\ Synthesize
    /\ LET acc == SeqStep(
               [hh_list |-> hh_list, people_list |-> people_list,
                fit_quality |-> fit_quality,
                hh_index_start |-> hh_index_start],
               indexes[k])
           people == acc.people_list[Len(acc.people_list)]
       IN  /\ call'[1].num_households = HHCount(indexes[k])
           /\ hh_list' = acc.hh_list
           /\ people_list' =
                  Append(people_list, WithSampleColumns(people, p_pums'))
           /\ fit_quality' = acc.fit_quality
           /\ hh_index_start' = acc.hh_index_start
           /\ cnt' = cnt + 1
           /\ k' = k + 1
           /\ pc' = IF BreakNow(cnt + 1, num_geogs) THEN "concat" ELSE "loop"
    /\ UNCHANGED <<hh_count, mode, indexes, num_geogs, earlier, par_state,
                   result, error>>

\* the caller keeps the returned triple and calls synthesize_all again
StartSecondRun ==
    /\ pc = "returned"
    /\ earlier = <<>>
    /\ earlier' = Append(earlier, result[1])
    /\ result' = None
    /\ pc' = "loop" /\ k' = 1 /\ cnt' = 0 /\ hh_index_start' = 0
    /\ hh_list' = <<>> /\ people_list' = <<>> /\ fit_quality' = EmptyFit
    /\ UNCHANGED <<hh_count, mode, indexes, num_geogs, synth_vars,
                   par_state, error>>

NextTwice ==
    \/ TwiceIteration
    \/ SeqLoopEnd
    \/ ConcatReturn
    \/ StartSecondRun

SpecTwice == InitTwice /\ [][NextTwice]_vars

(***************************************************************************)
(* Properties of a driver run (Spec)                                       *)
(***************************************************************************)
Returned == pc = "returned"
Ended == pc \in {"returned", "raised"}

\* the household ids of a table, as a set
IdsOf(households) == {households[j].id : j \in DOMAIN households}

\* the phase-1 tasks completed in another order than they were submitted
OutOfOrder == finished_args # <<>> /\ finished_args # geog_ids

\* the synthesis stage run on the inputs of geography g succeeded
Succeeded(g) ==
    IF mode = "par"
    THEN \E j \in DOMAIN futures :
             futures[j].src = g /\ futures[j].status = "done"
    ELSE \E j \in 1..(k - 1) : indexes[j] = g

\* the rows 0, 1, 2, ... of a household table carry the ids 0, 1, 2, ...
Contiguous(households) ==
    \A j \in DOMAIN households : households[j].id = j - 1

\* C1: in both drivers the household ids of the concatenated household table
\* are strictly increasing in row order, and no id occurs in the blocks of
\* two geographies, whatever the household counts and the completion order.
C1_IdsIncreasingDisjoint ==
    LET all == Flatten(hh_list)
    IN  /\ \A a, b \in DOMAIN all : a < b => all[a].id < all[b].id
        /\ \A a, b \in DOMAIN hh_list :
               a # b => IdsOf(hh_list[a]) \cap IdsOf(hh_list[b]) = {}
        /\ Returned => result[1].all_households = all

C1_Witness ==
    /\ Returned /\ mode = "par" /\ OutOfOrder
    /\ \E a, b, c \in DOMAIN hh_list :
           /\ a < b /\ b < c
           /\ Len(hh_list[a]) > 1 /\ hh_list[b] = <<>> /\ hh_list[c] # <<>>

\* C2: in the parallel driver the result handled at position i of the
\* phase-3 loop was computed from the inputs fetched for geog_ids[i]: the
\* geography columns of every household and the key of every fit-quality
\* entry name the geography whose inputs produced them.
C2_ResultMatchesGeography ==
    mode = "par" =>
        /\ \A j \in DOMAIN futures : j < i => futures[j].src = geog_ids[j]
        /\ \A b \in DOMAIN hh_list : \A r \in DOMAIN hh_list[b] :
               hh_list[b][r].geog = hh_list[b][r].src
        /\ \A key \in DOMAIN fit_quality : fit_quality[key] = DrawFit(key)

\* C3: in the parallel driver, when the input fetch of one geography out of
\* several raises, the driver still returns: the result holds the rows and
\* the fit-quality entry of every other geography, the failure is reported,
\* and the household ids of the others are contiguous.
C3_FetchFailureIsLocal ==
    LET failed == {j \in DOMAIN geog_synth_args :
                       geog_synth_args[j].status = "raised"}
        others == {geog_synth_args[j].geog :
                       j \in (DOMAIN geog_synth_args) \ failed}
    IN  (/\ mode = "par" /\ Ended
         /\ Len(geog_synth_args) > 1 /\ Cardinality(failed) = 1
         /\ \A j \in DOMAIN futures : futures[j].status = "done")
        => /\ Returned
           /\ DOMAIN result[1].fit_quality = others
           /\ {result[1].all_households[r].geog :
                   r \in DOMAIN result[1].all_households}
                  = {g \in others : HHCount(g) > 0}
           /\ Contiguous(result[1].all_households)
           /\ \E j \in failed : geog_synth_args[j].geog \in Range(printed)

\* C4: in phase 3 a synthesis task whose result raises adds no rows and no
\* fit-quality entry and leaves hh_index_start alone, every later task is
\* still processed, and the household ids collected stay contiguous.
C4_FailedTaskSkipped ==
    /\ [](mode = "par" => Contiguous(Flatten(hh_list)))
    /\ [][(pc = "reassemble" /\ i <= Len(futures)
             /\ futures[i].status = "raised")
          => (UNCHANGED accum /\ i' = i + 1 /\ pc' = "reassemble")]_vars
    /\ [][(pc = "reassemble" /\ pc' = "concat")
          => i > Len(futures)]_vars

C4_Witness ==
    /\ Returned /\ mode = "par"
    /\ \E a, b, c \in DOMAIN futures :
           /\ a < b /\ b < c
           /\ futures[a].status = "done" /\ HHCount(futures[a].src) > 0
           /\ futures[b].status = "raised" /\ HHCount(futures[b].src) > 0
           /\ futures[c].status = "done" /\ HHCount(futures[c].src) > 0
    /\ Len(hh_list) = 2

\* the geographies whose synthesis task raised
FailedSources ==
    {futures[j].src : j \in {x \in DOMAIN futures : futures[x].status = "raised"}}

RECURSIVE InOrderReassembly(_, _)
\* the reassembly of the run whose phase-1 tasks complete in submission
\* order: position j holds the result for geog_ids[j]
InOrderReassembly(j, acc) ==
    IF j > Len(geog_ids) THEN acc
    ELSE InOrderReassembly(j + 1,
             IF geog_ids[j] \in FailedSources THEN acc
             ELSE ReassembleStep(acc, geog_ids[j], geog_ids[j]))

InOrderResult ==
    LET acc == InOrderReassembly(1,
                   [hh_list |-> <<>>, people_list |-> <<>>,
                    fit_quality |-> EmptyFit, hh_index_start |-> 0])
    IN  [all_households |-> Flatten(acc.hh_list),
         all_persons |-> Flatten(acc.people_list),
         fit_quality |-> acc.fit_quality]

\* C5: the output of the parallel driver is the same for every completion
\* order of the pooled tasks: every run returns what the run with the same
\* inputs returns whose tasks complete in submission order.
C5_OutputIndependentOfCompletionOrder ==
    (mode = "par" /\ Returned) => result[1] = InOrderResult

\* C6: in both drivers every person of the returned person table has an
\* hh_id that is the id of a household of the returned household table.
C6_PersonsReferToHouseholds ==
    /\ \A b \in DOMAIN people_list : \A q \in DOMAIN people_list[b] :
           people_list[b][q].hh_id \in IdsOf(Flatten(hh_list))
    /\ Returned =>
           \A q \in DOMAIN result[1].all_persons :
               result[1].all_persons[q].hh_id
                   \in IdsOf(result[1].all_households)

C6_Witness ==
    /\ Returned /\ mode = "par" /\ printed # <<>>
    /\ \E q \in DOMAIN result[1].all_persons :
           result[1].all_persons[q].hh_id >= MaxHH
    /\ Len(people_list) > 1 /\ people_list[1] # <<>>

\* C7: when a driver run returns, the fit-quality map has an entry for a
\* geography exactly if that geography's synthesis stage succeeded, and the
\* household table holds rows tagged with a geography exactly if that
\* geography's stage succeeded (and drew at least one household).
C7_ResultCoversExactlySucceeded ==
    Returned =>
        \A g \in DOMAIN hh_count :
            /\ g \in DOMAIN result[1].fit_quality <=> Succeeded(g)
            /\ (\E r \in DOMAIN result[1].all_households :
                    result[1].all_households[r].geog = g)
               <=> (Succeeded(g) /\ HHCount(g) > 0)

\* C8: in the sequential driver a failure is local to one geography: an
\* exception raised while fetching the inputs of a geography or in its
\* synthesize call does not end the run.
C8_SeqFailureIsLocal ==
    (mode = "seq" /\ error # None /\ error[1].in \in {"fetch", "synthesize"})
        => pc # "raised"

(***************************************************************************)
(* Properties of synthesize (SpecSynth)                                    *)
(***************************************************************************)
Vals(marg) == [j \in DOMAIN marg |-> marg[j].val]
Freqs(jd) == [j \in DOMAIN jd |-> jd[j].frequency]

\* the four zero-guarded columns of the last call: <<before, after, sub>>
Guarded ==
    {<<Vals(h_marg), Vals(call[1].h_marg), marginal_zero_sub>>,
     <<Vals(p_marg), Vals(call[1].p_marg), marginal_zero_sub>>,
     <<Freqs(at_entry.h_jd), Freqs(h_jd), jd_zero_sub>>,
     <<Freqs(at_entry.p_jd), Freqs(p_jd), jd_zero_sub>>}

\* every cell that was 0 equals sub, every other cell keeps its value
CellsGuarded(old, new, sub) ==
    /\ DOMAIN new = DOMAIN old
    /\ \A j \in DOMAIN old :
           new[j] = IF old[j] = 0 THEN sub ELSE old[j]

HasZero(old) == \E j \in DOMAIN old : old[j] = 0

\* C9 as amended: after the replacement every cell that was exactly 0 equals
\* sub and every nonzero cell keeps its value; the minimum of all values is
\* at least sub when no nonzero cell was smaller than sub.
C9_ZeroGuard ==
    calls > 0 =>
        \A t \in Guarded :
            HasZero(t[1]) =>
                /\ CellsGuarded(t[1], t[2], t[3])
                /\ (\A j \in DOMAIN t[1] : t[1][j] # 0 => t[1][j] >= t[3])
                       => MinOf(Range(t[2])) >= t[3]

\* C9 as claimed: ... and the minimum of all values is at least sub.
C9_ZeroGuardMinAtLeastSub ==
    calls > 0 =>
        \A t \in Guarded :
            HasZero(t[1]) =>
                /\ CellsGuarded(t[1], t[2], t[3])
                /\ MinOf(Range(t[2])) >= t[3]

C9_Witness ==
    /\ calls > 0
    /\ \E a, b \in DOMAIN h_marg :
           /\ h_marg[a].val = 0 /\ call[1].h_marg[a].val = marginal_zero_sub
           /\ h_marg[b].val > marginal_zero_sub
           /\ call[1].h_marg[b].val = h_marg[b].val
    /\ \E a, b \in DOMAIN h_jd :
           /\ at_entry.h_jd[a].frequency = 0 /\ h_jd[a].frequency = jd_zero_sub
           /\ at_entry.h_jd[b].frequency > jd_zero_sub

\* C10: after every call of synthesize the smallest person cat_id equals
\* max(household cat_id) + 1 and no cat_id is both a household and a person
\* cat_id, also on a call that receives person tables passed to an earlier
\* call.
C10_PersonCatIdsNamespaced ==
    calls > 0 =>
        /\ MinOf(Range(CatIds(p_jd))) = MaxOf(Range(CatIds(h_jd))) + 1
        /\ Range(CatIds(h_jd)) \cap (Range(CatIds(p_jd)) \cup Range(p_pums))
               = {}

\* C11: synthesize has no side effect on the tables of its caller: after a
\* call the household and person joint-distribution tables (frequency and
\* cat_id) and the cat_id column of the person sample table hold the values
\* they held before the call.
C11_CallerTablesUnchanged ==
    calls > 0 =>
        /\ h_jd = at_entry.h_jd
        /\ p_jd = at_entry.p_jd
        /\ p_pums = at_entry.p_pums

\* the sum of the cells of the zero-substituted household marginal, and the
\* number of its top-level categories times 1000: their quotient is the mean
\* of the per-category totals
MeanNumerator == SumVals(call[1].h_marg, Len(call[1].h_marg))
MeanDenominator ==
    Cardinality({call[1].h_marg[j].cat : j \in DOMAIN call[1].h_marg}) * 1000

\* C13: the number of households asked of the drawer is the mean of the
\* per-category totals of the zero-substituted household marginal, rounded
\* to the nearest integer (no integer is nearer to the mean).
C13_NumHouseholdsRounded ==
    calls > 0 =>
        LET n == call[1].num_households
            dist(m) == IF m * MeanDenominator >= MeanNumerator
                       THEN m * MeanDenominator - MeanNumerator
                       ELSE MeanNumerator - m * MeanDenominator
        IN  dist(n) <= dist(n + 1) /\ dist(n) <= dist(n - 1)

\* C14: when the solver reports max_iterations iterations, synthesize does
\* not raise: it logs a warning and hands the drawer the weights the solver
\* returned, as it does when the solver reports fewer iterations.
C14_IterationCapIsWarning ==
    calls > 0 =>
        /\ call[1].returned
        /\ call[1].draw_weights = <<call[1].best_weights>>
        /\ call[1].logged = "warning" <=> call[1].iterations = max_iterations

C14_Witness ==
    /\ calls > 0
    /\ call[1].iterations = max_iterations
    /\ call[1].logged = "warning"
    /\ call[1].draw_weights = <<"weights_b">>

(***************************************************************************)
(* Further properties of a driver run (Spec)                               *)
(***************************************************************************)
RECURSIVE SeqRun(_, _, _)
\* the for loop of synthesize_all from position j on, with c geographies
\* counted so far, when nothing raises
SeqRun(j, c, acc) ==
    IF j > Len(indexes) THEN acc
    ELSE IF BreakNow(c + 1, num_geogs) THEN SeqStep(acc, indexes[j])
    ELSE SeqRun(j + 1, c + 1, SeqStep(acc, indexes[j]))

\* what synthesize_all returns on the inputs of this run when no
\* geography raises, or None: pd.concat of an empty hh_list raises
SeqRunResult ==
    LET acc == SeqRun(1, 0,
                   [hh_list |-> <<>>, people_list |-> <<>>,
                    fit_quality |-> EmptyFit, hh_index_start |-> 0])
    IN  IF acc.hh_list = <<>> THEN None
        ELSE <<[all_households |-> Flatten(acc.hh_list),
                all_persons |-> Flatten(acc.people_list),
                fit_quality |-> acc.fit_quality]>>

\* what C15 compares: household ids and key columns in row order, person
\* hh_id values in row order, the fit-quality map
Compared(res) ==
    [households |-> [r \in DOMAIN res.all_households |->
                        <<res.all_households[r].id,
                          res.all_households[r].geog>>],
     persons |-> [q \in DOMAIN res.all_persons |-> res.all_persons[q].hh_id],
     fit_quality |-> res.fit_quality]

\* C15: with no failing geography the parallel driver returns what the
\* sequential driver returns on the same geography list: the same household
\* ids in the same order, the same key columns, the same person hh_id
\* values and the same fit-quality map, for every completion order.
C15_ParallelEqualsSequential ==
    (mode = "par" /\ Returned /\ printed = <<>>)
        => /\ SeqRunResult # None
           /\ Compared(result[1]) = Compared(SeqRunResult[1])

\* C16: a geography whose input fetch has completed and been collected can
\* start its synthesis task while the fetch of another geography is still
\* running.
C16_ReadyGeographyStartsSynthesis ==
    (/\ mode = "par" /\ pc = "collect"
     /\ finished_args # <<>>
     /\ \E j \in DOMAIN geog_synth_args :
            geog_synth_args[j].status = "running")
        => ENABLED ParSubmitSynth

\* the number of geographies C17 expects to be processed
CappedCount ==
    IF num_geogs = None THEN Len(indexes)
    ELSE IF num_geogs[1] < Len(indexes) THEN num_geogs[1] ELSE Len(indexes)

\* C17: in both drivers the number of geographies fetched and synthesized
\* is min(num_geogs, number of geography ids) for every num_geogs >= 0,
\* and every geography id when num_geogs is None.
C17_ProcessedCountIsCapped ==
    pc \in {"concat", "returned"} =>
        /\ mode = "seq" => Len(hh_list) = CappedCount
        /\ mode = "par" => /\ Len(geog_synth_args) = CappedCount
                           /\ Len(futures) = CappedCount

\* C18: when no input fetch fails the parallel driver does not raise,
\* whatever subset of the synthesis tasks failed; when every synthesis task
\* failed or the geography list is empty it returns empty tables and an
\* empty fit-quality map.
C18_ParallelRunReturns ==
    (/\ mode = "par"
     /\ \A j \in DOMAIN geog_synth_args : geog_synth_args[j].status # "raised")
        => /\ pc # "raised"
           /\ (Returned /\ \A j \in DOMAIN futures :
                               futures[j].status = "raised")
                  => /\ result[1].all_households = <<>>
                     /\ result[1].all_persons = <<>>
                     /\ result[1].fit_quality = EmptyFit

(***************************************************************************)
(* Properties of two successive runs (SpecTwice)                           *)
(***************************************************************************)
\* C12: the second run of synthesize_all over the same recipe and the same
\* geography list returns the household table, the person table and the
\* fit-quality map that the first run returned.
C12_SecondRunIdentical ==
    (earlier # <<>> /\ Returned) => result[1] = earlier[1]

====
